---------------------------- MODULE Spec2Model ----------------------------
(***************************************************************************)
(* Crop geometry of the Nitro -> Adobe CRS converter (crop_calc.py).       *)
(*                                                                         *)
(* Numbers are exact rationals <<n, d>> in lowest terms with d > 0, so the *)
(* model states the arithmetic of the code without floating-point          *)
(* rounding.  An angle is the point (cos, sin) it marks on the unit        *)
(* circle; the angles of the model are the quarter turns and two angles of *)
(* the 3-4-5 triangle, whose cosine and sine are rational.                 *)
(***************************************************************************)
EXTENDS Integers, Sequences, FiniteSets, TLC

----------------------------------------------------------------------------
(* Numbers of the program.                                                 *)

DefaultOrientation == 1
PortraitOrientation == 8
DefaultOrigWidth == 6960
DefaultOrigHeight == 4640

----------------------------------------------------------------------------
(* Bounds of the model.                                                    *)

MaxOrigin == 2
MaxSize == 3
MaxOrig == 3
MaxCoord == 1
MaxTurns == 4
MaxOrientation == 9
FracDen == 2
MaxLines == 3
MaxFiles == 2
MaxSide == 4
MaxVersions == 2
MaxAdjustments == 2

----------------------------------------------------------------------------
(* Exact rational arithmetic (Python's numbers, without rounding).         *)

Abs(i) == IF i < 0 THEN -i ELSE i

RECURSIVE GCD(_, _)
GCD(a, b) == IF b = 0 THEN a ELSE GCD(b, a % b)

Norm(n, d) ==
    LET g == GCD(Abs(n), Abs(d))
        s == IF d < 0 THEN -1 ELSE 1
    IN  <<(s * n) \div g, (s * d) \div g>>

R(i) == <<i, 1>>
Zero == R(0)
One == R(1)
Half == <<1, 2>>

RAdd(a, b) == Norm(a[1] * b[2] + b[1] * a[2], a[2] * b[2])
RSub(a, b) == Norm(a[1] * b[2] - b[1] * a[2], a[2] * b[2])
RMul(a, b) == Norm(a[1] * b[1], a[2] * b[2])
RDiv(a, b) == Norm(a[1] * b[2], a[2] * b[1])
RNeg(a) == <<-a[1], a[2]>>
RAbs(a) == <<Abs(a[1]), a[2]>>
RLt(a, b) == a[1] * b[2] < b[1] * a[2]
RLe(a, b) == a[1] * b[2] <= b[1] * a[2]

(* The outcome of an evaluation that may raise.                            *)
Ret(v) == [ok |-> TRUE, val |-> v]
Raise == [ok |-> FALSE, val |-> Zero]

(* a / b as Python evaluates it: ZeroDivisionError when b is zero.         *)
Quot(a, b) == IF b = Zero THEN Raise ELSE Ret(RDiv(a, b))

----------------------------------------------------------------------------
(* Angles.                                                                 *)

Deg0 == [cos |-> R(1), sin |-> R(0)]
Deg90 == [cos |-> R(0), sin |-> R(1)]
Deg180 == [cos |-> R(-1), sin |-> R(0)]
Deg270 == [cos |-> R(0), sin |-> R(-1)]
DegAtan43 == [cos |-> <<3, 5>>, sin |-> <<4, 5>>]
DegMinusAtan34 == [cos |-> <<4, 5>>, sin |-> <<-3, 5>>]

QuarterTurns == {Deg0, Deg90, Deg180, Deg270}
Angles == QuarterTurns \cup {DegAtan43, DegMinusAtan34}

(* The angle taken without the change of sign.                             *)
NegRadiansNoNeg(a) == a

(* math.radians(-1.0 * rotation_degrees): the opposite angle.              *)
NegRadians(a) == [cos |-> a.cos, sin |-> RNeg(a.sin)]

----------------------------------------------------------------------------
(* class Point                                                             *)

Point(x, y) == [x |-> x, y |-> y]

(* The rotation with the sign of the sine terms exchanged (clockwise).     *)
rotate_clockwise(self, center, theta) ==
    LET dx == RSub(self.x, center.x)
        dy == RSub(self.y, center.y)
        rx == RAdd(RMul(dx, theta.cos), RMul(dy, theta.sin))
        ry == RSub(RMul(dy, theta.cos), RMul(dx, theta.sin))
    IN  Point(RAdd(center.x, rx), RAdd(center.y, ry))

rotate(self, center, theta) ==
    LET cos_th == theta.cos
        sin_th == theta.sin
        dx == RSub(self.x, center.x)
        dy == RSub(self.y, center.y)
        rx == RSub(RMul(dx, cos_th), RMul(dy, sin_th))
        ry == RAdd(RMul(dx, sin_th), RMul(dy, cos_th))
    IN  Point(RAdd(center.x, rx), RAdd(center.y, ry))

----------------------------------------------------------------------------
(* class CropRect                                                          *)

(* The constructor keeping the given size, zero or not.                    *)
CropRectNoSentinel(json_array, rotation_degrees, orig_width, orig_height) ==
    [origin |-> Point(json_array[1][1], json_array[1][2]),
     width |-> json_array[2][1],
     height |-> json_array[2][2],
     rotation_degrees |-> rotation_degrees,
     orig_width |-> orig_width,
     orig_height |-> orig_height]

(* CropRect.__init__: json_array is <<<<x1, y1>>, <<w, h>>>>.                *)
CropRect(json_array, rotation_degrees, orig_width, orig_height) ==
    LET x1 == json_array[1][1]
        y1 == json_array[1][2]
        w == json_array[2][1]
        h == json_array[2][2]
    IN  [origin |-> Point(x1, y1),
         width |-> IF w = Zero THEN orig_width ELSE w,
         height |-> IF h = Zero THEN orig_height ELSE h,
         rotation_degrees |-> rotation_degrees,
         orig_width |-> orig_width,
         orig_height |-> orig_height]

(* The origin taken for the centre.                                        *)
center_at_origin(self) == Point(self.origin.x, self.origin.y)

center(self) ==
    Point(RAdd(self.origin.x, RMul(Half, self.width)),
          RAdd(self.origin.y, RMul(Half, self.height)))

(* The two corners turned about the centre of the image instead.          *)
_rotate_corners_image(self, theta) ==
    LET c == Point(RMul(Half, self.orig_width), RMul(Half, self.orig_height))
        top_left == rotate(Point(self.origin.x, RAdd(self.origin.y, self.height)), c, theta)
        bottom_right == rotate(Point(RAdd(self.origin.x, self.width), self.origin.y), c, theta)
    IN  <<top_left, bottom_right>>

_rotate_corners(self, theta) ==
    LET c == center(self)
        top_left == rotate(Point(self.origin.x, RAdd(self.origin.y, self.height)), c, theta)
        bottom_right == rotate(Point(RAdd(self.origin.x, self.width), self.origin.y), c, theta)
    IN  <<top_left, bottom_right>>

(* The four corners _scale_factor walks over, in its order.                *)
corners(self) ==
    <<Point(self.origin.x, self.origin.y),
      Point(self.origin.x, RAdd(self.origin.y, self.height)),
      Point(RAdd(self.origin.x, self.width), self.origin.y),
      Point(RAdd(self.origin.x, self.width), RAdd(self.origin.y, self.height))>>

(* The scale started from nothing.                                         *)
ScaleInitZero == Zero

(* scale = 1.0                                                             *)
ScaleInit == One

(* The ratio taken over the whole width or height.                         *)
AxisRatioWhole(v, c, max_v) ==
    LET q == IF RLt(v, Zero) THEN Quot(RAbs(RSub(v, c)), c)
             ELSE Quot(RAbs(RSub(v, c)), max_v)
    IN  IF ~RLt(v, Zero) /\ ~RLt(max_v, v) THEN [kind |-> "inside", val |-> Zero]
        ELSE IF q.ok THEN [kind |-> "ratio", val |-> q.val]
        ELSE [kind |-> "raise", val |-> Zero]

(* One axis of one rotated corner, the if / elif pair of the loop body:    *)
(* the ratio abs(v - c) / divisor the branch taken hands to max(), and     *)
(* nothing when the coordinate is within [0, max_v].                       *)
Inside == [kind |-> "inside", val |-> Zero]
AxisRatio(v, c, max_v) ==
    LET q == IF RLt(v, Zero) THEN Quot(RAbs(RSub(v, c)), c)
             ELSE Quot(RAbs(RSub(v, c)), RSub(max_v, c))
    IN  IF ~RLt(v, Zero) /\ ~RLt(max_v, v) THEN Inside
        ELSE IF q.ok THEN [kind |-> "ratio", val |-> q.val]
        ELSE [kind |-> "raise", val |-> Zero]

(* The ratios of the loop "for p in corners", x before y for each corner.  *)
ratios(self, theta, max_width, max_height) ==
    LET c == center(self)
        cs == corners(self)
        rotated == [i \in 1..Len(cs) |-> rotate(cs[i], c, theta)]
    IN  [k \in 1..(2 * Len(cs)) |->
            IF k % 2 = 1 THEN AxisRatio(rotated[(k + 1) \div 2].x, c.x, max_width)
            ELSE AxisRatio(rotated[k \div 2].y, c.y, max_height)]

RMaxOf(S) == CHOOSE m \in S : \A x \in S : RLe(x, m)

(* The loop assigning each ratio to scale instead of folding max().        *)
_scale_factor_assign(self, theta, max_width, max_height) ==
    LET rs == ratios(self, theta, max_width, max_height)
        hit == {k \in DOMAIN rs : rs[k].kind = "ratio"}
    IN  IF \E k \in DOMAIN rs : rs[k].kind = "raise" THEN Raise
        ELSE IF hit = {} THEN Ret(ScaleInit)
        ELSE Ret(rs[CHOOSE k \in hit : \A j \in hit : j <= k].val)

(* The loop folds max() over the ratios, from scale = 1.0; the first       *)
(* division by zero ends it with ZeroDivisionError.                        *)
_scale_factor(self, theta, max_width, max_height) ==
    LET rs == ratios(self, theta, max_width, max_height)
    IN  IF \E k \in DOMAIN rs : rs[k].kind = "raise" THEN Raise
        ELSE Ret(RMaxOf({ScaleInit} \cup
                        {rs[k].val : k \in {j \in DOMAIN rs : rs[j].kind = "ratio"}}))

(* The offsets multiplied by the factor instead of divided.                 *)
_scale_point_times(self, poi, scale_factor) ==
    LET c == center(self)
        dx == RSub(poi.x, c.x)
        dy == RSub(poi.y, c.y)
    IN  Point(RAdd(c.x, RMul(dx, scale_factor)), RAdd(c.y, RMul(dy, scale_factor)))

_scale_point(self, poi, scale_factor) ==
    LET c == center(self)
        dx == RSub(poi.x, c.x)
        dy == RSub(poi.y, c.y)
    IN  Point(RAdd(c.x, RDiv(dx, scale_factor)), RAdd(c.y, RDiv(dy, scale_factor)))

(* The dictionary without the flip of the vertical axis.                   *)
FieldMapNoFlip(self, top_left_final, bottom_right_final) ==
    [CropLeft |-> RDiv(top_left_final.x, self.orig_width),
     CropTop |-> RDiv(top_left_final.y, self.orig_height),
     CropRight |-> RDiv(bottom_right_final.x, self.orig_width),
     CropBottom |-> RDiv(bottom_right_final.y, self.orig_height),
     CropAngle |-> self.rotation_degrees,
     CropConstrainToWarp |-> 0,
     CropConstrainToUnitSquare |-> 1,
     HasCrop |-> TRUE]

(* The dictionary with the angle the geometry used, the negated one.       *)
FieldMapNegAngle(self, top_left_final, bottom_right_final) ==
    [CropLeft |-> RDiv(top_left_final.x, self.orig_width),
     CropTop |-> RSub(One, RDiv(top_left_final.y, self.orig_height)),
     CropRight |-> RDiv(bottom_right_final.x, self.orig_width),
     CropBottom |-> RSub(One, RDiv(bottom_right_final.y, self.orig_height)),
     CropAngle |-> NegRadians(self.rotation_degrees),
     CropConstrainToWarp |-> 0,
     CropConstrainToUnitSquare |-> 1,
     HasCrop |-> TRUE]

(* The dictionary crop_factors returns, from the two final corners; the    *)
(* field X is the key "crs:X".                                             *)
FieldMap(self, top_left_final, bottom_right_final) ==
    [CropLeft |-> RDiv(top_left_final.x, self.orig_width),
     CropTop |-> RSub(One, RDiv(top_left_final.y, self.orig_height)),
     CropRight |-> RDiv(bottom_right_final.x, self.orig_width),
     CropBottom |-> RSub(One, RDiv(bottom_right_final.y, self.orig_height)),
     CropAngle |-> self.rotation_degrees,
     CropConstrainToWarp |-> 0,
     CropConstrainToUnitSquare |-> 1,
     HasCrop |-> TRUE]

(* Where crop_factors ends: it returns a map, or a division raises         *)
(* ZeroDivisionError inside _scale_factor or in the normalisation.         *)
NoResult == [kind |-> "none", at |-> "none"]
Raised(at) == [kind |-> "ZeroDivisionError", at |-> at]
Returned(m) == [kind |-> "return", at |-> "crop_factors", map |-> m]

(* The object with the negated angle stored back by the call.              *)
SelfAfterNegating(self) ==
    [self EXCEPT !.rotation_degrees = NegRadians(@)]

(* The object after crop_factors: the method assigns no field of self.     *)
SelfAfterCropFactors(self) == self

(* top_left_rotated, bottom_right_rotated = self._rotate_corners(theta)    *)
RotateCall(self) == _rotate_corners(self, NegRadians(self.rotation_degrees))

crop_factors(self) ==
    LET theta == NegRadians(self.rotation_degrees)
        rc == _rotate_corners(self, theta)
        sf == _scale_factor(self, theta, self.orig_width, self.orig_height)
    IN  IF ~sf.ok THEN Raised("_scale_factor")
        ELSE IF self.orig_width = Zero \/ self.orig_height = Zero
             THEN Raised("crop_factors")
        ELSE Returned(FieldMap(self, _scale_point(self, rc[1], sf.val),
                                     _scale_point(self, rc[2], sf.val)))

----------------------------------------------------------------------------
(* State: one CropRect object and the last call of crop_factors on it.     *)

VARIABLES
    args,           \* the arguments the constructor was given
    rect,           \* the CropRect object, once constructed
    rotated,        \* the two corners _rotate_corners gave the call
    scale_factor,   \* what _scale_factor gave the crop_factors call
    result,         \* how the crop_factors call ended
    point,          \* a Point, the receiver of the first rotate call
    pivot,          \* the Point passed as center
    image,          \* the Point the latest rotate call returned
    thetas,         \* the angles of the rotate calls made so far
    orientation,    \* self.orientation of the converter
    crs_given,      \* the dictionary as it was passed to maybe_rotate_crop
    crs_crop_data,  \* the dictionary after maybe_rotate_crop (changed in place)
    adobe_xmp,      \* the text of the file at adobe_xmp_path, if there is one
    adobe_before,   \* that text when update_adobe_xmp was called
    patch_data,     \* the dictionary update_adobe_xmp was given
    patch_ret,      \* what update_adobe_xmp returned
    patch_calls,    \* how many times update_adobe_xmp was called on the file
    adobe_once,     \* the text of the file after the first of these calls
    crop_data_args, \* the arguments CropData(...) was given
    crop_data,      \* the CropData object, or the ValueError raised instead
    versions,       \* editModel['versions'] of the plist convert_file reads
    scan,           \* what the loops over versions and adjustments did
    nitro_dir,      \* the *.xmp files of the Nitro directory, by name
    adobe_dir,      \* the Adobe directory: whether it exists, its files by name
    pc,             \* where convert_directory is
    visited,        \* what the loop of convert_directory did, file by file
    successful,     \* the counter of convert_directory
    printed         \* the last line convert_directory printed

geomVars == <<args, rect, rotated, scale_factor, result>>
pointVars == <<point, pivot, image, thetas>>
remapVars == <<orientation, crs_given, crs_crop_data>>
patchVars == <<adobe_xmp, adobe_before, patch_data, patch_ret, patch_calls, adobe_once>>
cropDataVars == <<crop_data_args, crop_data>>
scanVars == <<versions, scan>>
batchVars == <<nitro_dir, adobe_dir, pc, visited, successful, printed>>
convVars == <<remapVars, patchVars, batchVars, cropDataVars, scanVars>>
notRemap == <<geomVars, pointVars, patchVars, batchVars, cropDataVars, scanVars>>
notPatch == <<geomVars, pointVars, remapVars, batchVars, cropDataVars, scanVars>>
notBatch == <<geomVars, pointVars, crs_given, crs_crop_data, patchVars, cropDataVars, scanVars>>
notCropData == <<geomVars, pointVars, remapVars, patchVars, batchVars, scanVars>>
notScan == <<geomVars, pointVars, remapVars, patchVars, batchVars, cropDataVars>>
vars == <<geomVars, pointVars, convVars>>

NoArgs == [kind |-> "none"]
NoRect == [kind |-> "none"]
NoCall == [kind |-> "none", val |-> Zero]
NoCorners == <<>>
NoPoint == [kind |-> "none"]
NoMap == [kind |-> "none"]
NoFile == [exists |-> FALSE, lines |-> <<>>]
File(lines) == [exists |-> TRUE, lines |-> lines]
NoReturn == "none"
NoDir == [exists |-> FALSE, files |-> <<>>]
Dir(files) == [exists |-> TRUE, files |-> files]
NothingPrinted == [line |-> "none", successful |-> 0, total |-> 0]
NoCropData == [kind |-> "none"]
NoVersions == [kind |-> "none"]
NoScan == [kind |-> "none"]

OriginVals == {R(i) : i \in (0 - 1)..MaxOrigin}
SizeVals == {R(i) : i \in (0 - 1)..MaxSize}
OrigVals == {R(i) : i \in (0 - 1)..MaxOrig}

(* transformer = CropRect(json_array, rotation_degrees, orig_width,        *)
(* orig_height)                                                            *)
Construct(ja, rot, ow, oh) ==
    /\ args' = [json_array |-> ja, rotation_degrees |-> rot,
                orig_width |-> ow, orig_height |-> oh]
    /\ rect' = CropRect(ja, rot, ow, oh)
    /\ UNCHANGED <<rotated, scale_factor, result>>
    /\ UNCHANGED <<pointVars, convVars>>

(* scale_factor = self._scale_factor(theta, self.orig_width,               *)
(* self.orig_height), as crop_factors calls it.                            *)
ScaleCall(self) ==
    LET sf == _scale_factor(self, NegRadians(self.rotation_degrees),
                            self.orig_width, self.orig_height)
    IN  IF sf.ok THEN [kind |-> "return", val |-> sf.val]
        ELSE [kind |-> "ZeroDivisionError", val |-> Zero]

(* transformer.crop_factors(), followed once for each object: a further    *)
(* call computes from the object this call leaves (see C13).               *)
CropFactors ==
    /\ rect # NoRect
    /\ result = NoResult
    /\ rotated' = RotateCall(rect)
    /\ scale_factor' = ScaleCall(rect)
    /\ result' = crop_factors(rect)
    /\ rect' = SelfAfterCropFactors(rect)
    /\ UNCHANGED args
    /\ UNCHANGED <<pointVars, convVars>>

(* Nothing constructed and nothing called yet.                             *)
Init ==
    /\ args = NoArgs
    /\ rect = NoRect
    /\ rotated = NoCorners
    /\ scale_factor = NoCall
    /\ result = NoResult
    /\ point = NoPoint
    /\ pivot = NoPoint
    /\ image = NoPoint
    /\ thetas = <<>>
    /\ orientation = DefaultOrientation
    /\ crs_given = NoMap
    /\ crs_crop_data = NoMap
    /\ adobe_xmp = NoFile
    /\ adobe_before = NoFile
    /\ patch_data = NoMap
    /\ patch_ret = NoReturn
    /\ patch_calls = 0
    /\ adobe_once = NoFile
    /\ crop_data_args = NoCropData
    /\ crop_data = NoCropData
    /\ versions = NoVersions
    /\ scan = NoScan
    /\ nitro_dir = NoDir
    /\ adobe_dir = NoDir
    /\ pc = "idle"
    /\ visited = <<>>
    /\ successful = 0
    /\ printed = NothingPrinted

(* One object is followed from its construction to its crop_factors call. *)
ConstructAny ==
    /\ rect = NoRect
    /\ \E x \in OriginVals, y \in OriginVals, w \in SizeVals, h \in SizeVals,
          rot \in Angles, ow \in OrigVals, oh \in OrigVals :
            Construct(<<<<x, y>>, <<w, h>>>>, rot, ow, oh)

Next ==
    \/ ConstructAny
    \/ CropFactors

Spec == Init /\ [][Next]_vars

----------------------------------------------------------------------------
(* Rectangles of positive width and height in an image that holds them     *)
(* whole or in part, turned by each angle.                                 *)

SideVals == {R(i) : i \in 1..MaxSide}
ImageVals == {R(2 * MaxSide), R(3 * MaxSide)}

(* transformer = CropRect([[x, y], [w, h]], rot, ow, oh) with w, h > 0     *)
ConstructPositive ==
    /\ rect = NoRect
    /\ \E x \in OriginVals, y \in OriginVals, w \in SideVals, h \in SideVals,
          rot \in Angles, ow \in ImageVals, oh \in ImageVals :
            Construct(<<<<x, y>>, <<w, h>>>>, rot, ow, oh)

PositiveNext ==
    \/ ConstructPositive
    \/ CropFactors

PositiveSpec == Init /\ [][PositiveNext]_vars

----------------------------------------------------------------------------
(* Point.rotate on its own: two Points are made, then rotate is called on  *)
(* the first and on each Point returned, always about the second.          *)

CoordVals == {R(i) : i \in 0..MaxCoord}
PointAngles == {Deg0, Deg90, DegAtan43, DegMinusAtan34}

(* point = Point(x, y); pivot = Point(cx, cy)                              *)
MakePoints ==
    /\ point = NoPoint
    /\ \E x \in CoordVals, y \in CoordVals, cx \in CoordVals, cy \in CoordVals :
          /\ point' = Point(x, y)
          /\ pivot' = Point(cx, cy)
    /\ UNCHANGED <<image, thetas>>
    /\ UNCHANGED <<geomVars, convVars>>

(* image = self.rotate(pivot, theta), self being point at the first call   *)
(* and the Point returned by the call before at the later ones.  rotate    *)
(* assigns to no attribute of self or center.                              *)
PointRotate ==
    /\ point # NoPoint
    /\ Len(thetas) < MaxTurns
    /\ \E theta \in PointAngles :
          /\ image' = rotate(IF thetas = <<>> THEN point ELSE image, pivot, theta)
          /\ thetas' = Append(thetas, theta)
    /\ UNCHANGED <<point, pivot>>
    /\ UNCHANGED <<geomVars, convVars>>

PointNext ==
    \/ MakePoints
    \/ PointRotate

PointSpec == Init /\ [][PointNext]_vars

----------------------------------------------------------------------------
(* class NitroToCRSConverter: the orientation remap.                       *)

(* crs_crop_data.get(key, default)                                         *)
get(d, key, default) == IF key \in DOMAIN d THEN d[key] ELSE default

(* The remap applied for the orientations 6 and 8 alike.                   *)
maybe_rotate_crop_both(self_orientation, d) ==
    IF self_orientation \in {6, PortraitOrientation}
    THEN [k \in DOMAIN d |->
            CASE k = "CropLeft" -> RSub(One, d.CropBottom)
              [] k = "CropTop" -> d.CropLeft
              [] k = "CropRight" -> RSub(One, d.CropTop)
              [] k = "CropBottom" -> d.CropRight
              [] OTHER -> d[k]]
    ELSE d

(* The remap without the complements: (l, t, r, b) -> (b, l, t, r).        *)
maybe_rotate_crop_no_complement(self_orientation, d) ==
    IF self_orientation = PortraitOrientation
    THEN [k \in DOMAIN d |->
            CASE k = "CropLeft" -> d.CropBottom
              [] k = "CropTop" -> d.CropLeft
              [] k = "CropRight" -> d.CropTop
              [] k = "CropBottom" -> d.CropRight
              [] OTHER -> d[k]]
    ELSE d

(* maybe_rotate_crop(self, crs_crop_data): the dictionary it leaves and    *)
(* returns.                                                                *)
maybe_rotate_crop(self_orientation, d) ==
    IF self_orientation = PortraitOrientation
    THEN LET cl == get(d, "CropLeft", Zero)
             ct == get(d, "CropTop", Zero)
             cr == get(d, "CropRight", One)
             cb == get(d, "CropBottom", One)
         IN  [k \in DOMAIN d \cup {"CropLeft", "CropTop", "CropRight", "CropBottom"} |->
                CASE k = "CropLeft" -> RSub(One, cb)
                  [] k = "CropTop" -> cl
                  [] k = "CropRight" -> RSub(One, ct)
                  [] k = "CropBottom" -> cr
                  [] OTHER -> d[k]]
    ELSE d

Orientations == 1..MaxOrientation
FracVals == {Norm(i, FracDen) : i \in 0..FracDen}

(* The dictionaries crop_factors builds, over a grid of fractions.         *)
CrsMaps ==
    {[CropLeft |-> l, CropTop |-> t, CropRight |-> r, CropBottom |-> b,
      CropAngle |-> a, CropConstrainToWarp |-> 0,
      CropConstrainToUnitSquare |-> 1, HasCrop |-> TRUE] :
        l \in FracVals, t \in FracVals, r \in FracVals, b \in FracVals,
        a \in Angles}

(* self.orientation = plist_data['editModel']['defaultOrientation'], for a *)
(* file that has one.                                                      *)
SetOrientation ==
    /\ crs_crop_data = NoMap
    /\ \E o \in Orientations : orientation' = o
    /\ UNCHANGED <<crs_given, crs_crop_data>>
    /\ UNCHANGED notRemap

(* self.maybe_rotate_crop(crs_crop_data)                                   *)
MaybeRotateCrop ==
    /\ crs_crop_data = NoMap
    /\ \E d \in CrsMaps :
          /\ crs_given' = d
          /\ crs_crop_data' = maybe_rotate_crop(orientation, d)
    /\ UNCHANGED orientation
    /\ UNCHANGED notRemap

(* The next file of the run: the converter keeps its orientation.          *)
NextFile ==
    /\ crs_crop_data # NoMap
    /\ crs_given' = NoMap
    /\ crs_crop_data' = NoMap
    /\ UNCHANGED orientation
    /\ UNCHANGED notRemap

RemapNext ==
    \/ SetOrientation
    \/ MaybeRotateCrop
    \/ NextFile

RemapSpec == Init /\ [][RemapNext]_vars

----------------------------------------------------------------------------
(* class CropData (xmp_parser.py): the dataclass and its __post_init__.    *)

(* The validation with the strict comparisons relaxed: an empty box        *)
(* (left = right or top = bottom) is let through.                          *)
CropDataAllowingEmpty(left, top, right, bottom, angle, has_crop) ==
    IF ~(RLe(Zero, left) /\ RLe(left, One) /\ RLe(Zero, top) /\ RLe(top, One)
         /\ RLe(Zero, right) /\ RLe(right, One) /\ RLe(Zero, bottom) /\ RLe(bottom, One))
    THEN [kind |-> "ValueError",
          message |-> "Crop coordinates must be normalized between 0 and 1"]
    ELSE IF RLt(right, left) \/ RLt(bottom, top)
    THEN [kind |-> "ValueError",
          message |-> "Invalid crop rectangle: left >= right or top >= bottom"]
    ELSE [kind |-> "CropData", left |-> left, top |-> top, right |-> right,
          bottom |-> bottom, angle |-> angle, has_crop |-> has_crop]

(* CropData(left, top, right, bottom, angle, has_crop): the object, or the *)
(* ValueError __post_init__ raises.                                        *)
CropData(left, top, right, bottom, angle, has_crop) ==
    IF ~(RLe(Zero, left) /\ RLe(left, One) /\ RLe(Zero, top) /\ RLe(top, One)
         /\ RLe(Zero, right) /\ RLe(right, One) /\ RLe(Zero, bottom) /\ RLe(bottom, One))
    THEN [kind |-> "ValueError",
          message |-> "Crop coordinates must be normalized between 0 and 1"]
    ELSE IF RLe(right, left) \/ RLe(bottom, top)
    THEN [kind |-> "ValueError",
          message |-> "Invalid crop rectangle: left >= right or top >= bottom"]
    ELSE [kind |-> "CropData", left |-> left, top |-> top, right |-> right,
          bottom |-> bottom, angle |-> angle, has_crop |-> has_crop]

(* Coordinates inside, on the ends of, and outside [0, 1].                 *)
CoordinateVals == {Norm(i, FracDen) : i \in (0 - 1)..(FracDen + 1)}

(* The arguments of a CropData(...) call.                                  *)
GiveCropDataArgs ==
    /\ crop_data_args = NoCropData
    /\ \E l \in CoordinateVals, t \in CoordinateVals, r \in CoordinateVals,
          b \in CoordinateVals, h \in BOOLEAN :
            crop_data_args' = [kind |-> "args", left |-> l, top |-> t, right |-> r,
                               bottom |-> b, angle |-> Deg0, has_crop |-> h]
    /\ UNCHANGED crop_data
    /\ UNCHANGED notCropData

(* CropData(left=..., top=..., right=..., bottom=..., angle=...,           *)
(* has_crop=...)                                                           *)
ConstructCropData ==
    /\ crop_data_args # NoCropData
    /\ crop_data = NoCropData
    /\ crop_data' = CropData(crop_data_args.left, crop_data_args.top,
                             crop_data_args.right, crop_data_args.bottom,
                             crop_data_args.angle, crop_data_args.has_crop)
    /\ UNCHANGED crop_data_args
    /\ UNCHANGED notCropData

CropDataNext ==
    \/ GiveCropDataArgs
    \/ ConstructCropData

CropDataSpec == Init /\ [][CropDataNext]_vars

----------------------------------------------------------------------------
(* class NitroToCRSConverter: update_adobe_xmp.                            *)
(*                                                                         *)
(* The text of a file is the sequence of its lines, each ending in a       *)
(* newline.  A line is either an attribute line, indent spaces followed by *)
(* ns:local="value" and a tail (nothing, or the > closing the element),    *)
(* or a line of other text with no attribute in it.  A value is the kind   *)
(* of its text and a number: the millionths of a float written with six    *)
(* decimals, the integer of str(int), 1 or 0 for "True" or "False".        *)

AttrLine(indent, ns, local, value, tail) ==
    [kind |-> "attr", indent |-> indent, ns |-> ns, local |-> local,
     value |-> value, tail |-> tail]
TextLine(text) ==
    [kind |-> "text", indent |-> 0, ns |-> "", local |-> text,
     value |-> [kind |-> "none", n |-> 0], tail |-> ""]
OldValue == [kind |-> "old", n |-> 0]

(* f"{prop_value:.6f}": the nearest number of millionths.                  *)
Fixed6(r) == (2 * r[1] * 1000000 + r[2]) \div (2 * r[2])

FloatKeys == {"CropLeft", "CropTop", "CropRight", "CropBottom"}
BoolKeys == {"HasCrop"}

(* The millionths of a degree of the angles of the model.                  *)
Degrees6(a) ==
    CASE a = Deg0 -> 0
      [] a = Deg90 -> 90000000
      [] a = Deg180 -> 180000000
      [] a = Deg270 -> 270000000
      [] a = DegAtan43 -> 53130102
      [] a = DegMinusAtan34 -> 0 - 36869898

(* value_str, by the type the value of the key has.                        *)
value_str(prop_name, prop_value) ==
    IF prop_name \in BoolKeys
    THEN [kind |-> "str(bool)", n |-> IF prop_value THEN 1 ELSE 0]
    ELSE IF prop_name \in FloatKeys
    THEN [kind |-> ".6f", n |-> Fixed6(prop_value)]
    ELSE IF prop_name = "CropAngle"
    THEN [kind |-> ".6f", n |-> Degrees6(prop_value)]
    ELSE [kind |-> "str(int)", n |-> prop_value]

(* re.search(pattern, content), pattern being prop_name="[^"]*"            *)
Matches(content, prop_name) ==
    {i \in DOMAIN content :
        /\ content[i].kind = "attr"
        /\ content[i].ns = "crs"
        /\ content[i].local = prop_name}

(* re.finditer(crs_pattern, content): a crs: attribute with the newline    *)
(* right behind its closing quote.                                         *)
CrsMatches(content) ==
    {i \in DOMAIN content :
        /\ content[i].kind = "attr"
        /\ content[i].ns = "crs"
        /\ content[i].tail = ""}

(* The first match taken for the last.                                     *)
First(S) == CHOOSE i \in S : \A j \in S : i <= j

(* matches[-1]                                                             *)
Last(S) == CHOOSE i \in S : \A j \in S : j <= i

(* The turn that never looks for the property: it adds a line whenever     *)
(* there is a crs: line to add it after.                                   *)
PatchPropertyAdding(content, prop_name, prop_value) ==
    LET v == value_str(prop_name, prop_value)
    IN  IF CrsMatches(content) # {}
        THEN LET last_match == Last(CrsMatches(content))
                 new_line == AttrLine(content[last_match].indent, "crs",
                                      prop_name, v, "")
             IN  SubSeq(content, 1, last_match) \o <<new_line>>
                     \o SubSeq(content, last_match + 1, Len(content))
        ELSE content

(* One turn of the loop over crs_crop_data.items().                        *)
PatchProperty(content, prop_name, prop_value) ==
    LET v == value_str(prop_name, prop_value)
    IN  IF Matches(content, prop_name) # {}
        THEN [i \in DOMAIN content |->
                IF i \in Matches(content, prop_name)
                THEN [content[i] EXCEPT !.value = v]
                ELSE content[i]]
        ELSE IF CrsMatches(content) # {}
        THEN LET last_match == Last(CrsMatches(content))
                 new_line == AttrLine(content[last_match].indent, "crs",
                                      prop_name, v, "")
             IN  SubSeq(content, 1, last_match) \o <<new_line>>
                     \o SubSeq(content, last_match + 1, Len(content))
        ELSE content

(* The keys of a dictionary crop_factors built, in their order.            *)
KeyOrder ==
    <<"CropLeft", "CropTop", "CropRight", "CropBottom", "CropAngle",
      "CropConstrainToWarp", "CropConstrainToUnitSquare", "HasCrop">>

RECURSIVE PatchFrom(_, _, _)
PatchFrom(content, d, i) ==
    IF i > Len(KeyOrder) THEN content
    ELSE IF KeyOrder[i] \in DOMAIN d
    THEN PatchFrom(PatchProperty(content, KeyOrder[i], d[KeyOrder[i]]), d, i + 1)
    ELSE PatchFrom(content, d, i + 1)

(* update_adobe_xmp(adobe_xmp_path, crs_crop_data): the text it leaves in  *)
(* the file and what it returns ("True" or "False"); open() raises for a   *)
(* missing file.                                                           *)
update_adobe_xmp(file, d) ==
    IF file = NoFile
    THEN [file |-> file, ret |-> "False"]
    ELSE [file |-> File(PatchFrom(file.lines, d, 1)), ret |-> "True"]

DestLines ==
    {TextLine("<rdf:Description"),
     AttrLine(1, "xmp", "Rating", OldValue, ""),
     AttrLine(2, "crs", "Version", OldValue, ""),
     AttrLine(3, "crs", "Version", OldValue, ">"),
     AttrLine(2, "crs", "CropLeft", OldValue, ""),
     AttrLine(2, "crs", "CropLeft", OldValue, ">"),
     AttrLine(1, "crs", "HasCrop", OldValue, "")}

DestFiles == {File(lines) : lines \in UNION {[1..n -> DestLines] : n \in 0..MaxLines}}

(* Dictionaries with a float, an int and a bool among their values.        *)
PatchMaps ==
    {[CropLeft |-> l, HasCrop |-> TRUE] : l \in FracVals}
    \cup {[CropLeft |-> l, CropConstrainToWarp |-> 0, HasCrop |-> TRUE] : l \in FracVals}
    \cup {[CropConstrainToWarp |-> 0], [HasCrop |-> TRUE]}

(* The file at adobe_xmp_path, as it was written before the run.           *)
ProvideAdobeFile ==
    /\ adobe_xmp = NoFile
    /\ patch_ret = NoReturn
    /\ \E f \in DestFiles : adobe_xmp' = f
    /\ UNCHANGED <<adobe_before, patch_data, patch_ret, patch_calls, adobe_once>>
    /\ UNCHANGED notPatch

(* self.update_adobe_xmp(adobe_xmp_path, crs_crop_data)                    *)
UpdateAdobeXmp ==
    /\ patch_ret = NoReturn
    /\ \E d \in PatchMaps :
          /\ patch_data' = d
          /\ adobe_xmp' = update_adobe_xmp(adobe_xmp, d).file
          /\ adobe_once' = update_adobe_xmp(adobe_xmp, d).file
          /\ patch_ret' = update_adobe_xmp(adobe_xmp, d).ret
    /\ adobe_before' = adobe_xmp
    /\ patch_calls' = 1
    /\ UNCHANGED notPatch

(* self.update_adobe_xmp(adobe_xmp_path, crs_crop_data) once more, with    *)
(* the same dictionary, on the file the first call left.                   *)
UpdateAdobeXmpAgain ==
    /\ patch_calls = 1
    /\ adobe_xmp' = update_adobe_xmp(adobe_xmp, patch_data).file
    /\ patch_ret' = update_adobe_xmp(adobe_xmp, patch_data).ret
    /\ patch_calls' = 2
    /\ UNCHANGED <<adobe_before, patch_data, adobe_once>>
    /\ UNCHANGED notPatch

PatchNext ==
    \/ ProvideAdobeFile
    \/ UpdateAdobeXmp
    \/ UpdateAdobeXmpAgain

PatchSpec == Init /\ [][PatchNext]_vars

----------------------------------------------------------------------------
(* class NitroToCRSConverter: nitro_crop_to_crs, convert_file and          *)
(* convert_directory.                                                      *)

EmptyMap == <<>>
TypeError == [kind |-> "TypeError", at |-> "crop_factors"]

(* transformer.crop_factors(...): crop_factors(self) takes no             *)
(* argument besides self, so a call that passes any raises TypeError.      *)
crop_factors_call(self, positional) ==
    IF Len(positional) > 0 THEN TypeError ELSE crop_factors(self)

(* The conversion without its except clause: what the call of             *)
(* crop_factors ends with is handed on as it is.                           *)
nitro_crop_to_crs_uncaught(crop_json, original_width, original_height) ==
    LET crop_rect == crop_json.cropRect
    IN  IF Len(crop_rect) # 2 THEN EmptyMap
        ELSE LET transformer == CropRect(crop_rect, Deg0, R(DefaultOrigWidth),
                                         R(DefaultOrigHeight))
                 Handed(factors) ==
                     IF factors.kind = "return" THEN factors.map ELSE factors
             IN  Handed(crop_factors_call(transformer,
                     <<crop_json.straighten, original_width, original_height>>))

(* nitro_crop_to_crs(crop_data, original_width, original_height), for a    *)
(* crop_data with a cropRect of numeric pairs: the dictionary returned.    *)
nitro_crop_to_crs(crop_json, original_width, original_height) ==
    LET crop_rect == crop_json.cropRect
    IN  IF Len(crop_rect) # 2 THEN EmptyMap
        ELSE LET straighten == crop_json.straighten
                 x1 == crop_rect[1][1]
                 y1 == crop_rect[1][2]
                 w == crop_rect[2][1]
                 h == crop_rect[2][2]
                 transformer ==
                     IF x1 = Zero /\ y1 = Zero /\ w = Zero /\ h = Zero
                     THEN CropRect(<<<<x1, y1>>, <<R(original_width), R(original_height)>>>>,
                                   Deg0, R(DefaultOrigWidth), R(DefaultOrigHeight))
                     ELSE CropRect(crop_rect, Deg0, R(DefaultOrigWidth),
                                   R(DefaultOrigHeight))
                 called_with == <<straighten, original_width, original_height>>
                 \* try: return transformer.crop_factors(...)
                 \* except Exception: return {}
                 Try(factors) ==
                     IF factors.kind = "return" THEN factors.map ELSE EmptyMap
             IN  Try(crop_factors_call(transformer, called_with))

(* A Nitro file, by what convert_file finds in it: whether it has an edit  *)
(* model; its originalImagePixelSize ("missing", "unparsable", or "ok"     *)
(* with width and height); its defaultOrientation (0: it has none); its    *)
(* Crop adjustment ("none", "raises" for an entry that makes the loop      *)
(* raise, or "json" with cropRect and straighten).                         *)
NitroFile(plist, size, width, height, defaultOrientation, crop, cropRect, straighten) ==
    [plist |-> plist, size |-> size, width |-> width, height |-> height,
     defaultOrientation |-> defaultOrientation, crop |-> crop,
     cropRect |-> cropRect, straighten |-> straighten]

(* What convert_file leaves of the Adobe file on a path that never opens   *)
(* it: the file as it was.                                                 *)
Truncated(file) == File(<<>>)
Untouched(file) == file

(* convert_file(nitro_path, adobe_path): what it returns ("True" or        *)
(* "False"), the message it prints, self.orientation and the Adobe file    *)
(* when it returns, and what nitro_crop_to_crs gave it.                    *)
convert_file(self_orientation, nf, adobe_path) ==
    LET new_orientation ==
            IF nf.defaultOrientation # 0 THEN nf.defaultOrientation
            ELSE self_orientation
        Fail(message, o, d) ==
            [ret |-> "False", message |-> message, orientation |-> o,
             adobe |-> Untouched(adobe_path), crs |-> d]
        \* from "if not crs_crop_data:" on, crs_crop_data being known
        Convert(crs) ==
            IF DOMAIN crs = {}
            THEN Fail("No crop data found", new_orientation, crs)
            ELSE IF ~adobe_path.exists
            THEN Fail("Adobe XMP file not found", new_orientation, crs)
            ELSE LET u == update_adobe_xmp(adobe_path,
                                           maybe_rotate_crop(new_orientation, crs))
                 IN  [ret |-> u.ret,
                      message |-> IF u.ret = "True" THEN "Updated" ELSE "Failed to update",
                      orientation |-> new_orientation, adobe |-> u.file, crs |-> crs]
    IN  IF ~nf.plist
        THEN Fail("No Nitro edit model found", self_orientation, EmptyMap)
        ELSE IF nf.size = "missing"
        THEN Fail("No originalImagePixelSize found", self_orientation, EmptyMap)
        ELSE IF nf.size = "unparsable"
        THEN Fail("Error converting", self_orientation, EmptyMap)
        ELSE IF nf.width = 0 \/ nf.height = 0
        THEN Fail("Invalid originalImagePixelSize format", self_orientation, EmptyMap)
        ELSE IF nf.crop = "raises"
        THEN Fail("Error converting", new_orientation, EmptyMap)
        ELSE IF nf.crop = "json"
        THEN Convert(nitro_crop_to_crs(nf, nf.width, nf.height))
        ELSE Convert(EmptyMap)

(* sorted(...), the largest first.                                         *)
RECURSIVE sorted_descending(_)
sorted_descending(S) ==
    IF S = {} THEN <<>>
    ELSE LET m == CHOOSE x \in S : \A y \in S : y <= x
         IN  <<m>> \o sorted_descending(S \ {m})

(* sorted(nitro_path.glob("*.xmp")); a file name is a number.              *)
RECURSIVE sorted(_)
sorted(S) ==
    IF S = {} THEN <<>>
    ELSE LET m == CHOOSE x \in S : \A y \in S : x <= y
         IN  <<m>> \o sorted(S \ {m})

NitroFiles ==
    {NitroFile(FALSE, "missing", 0, 0, 0, "none", <<>>, Deg0),
     NitroFile(TRUE, "missing", 0, 0, 0, "none", <<>>, Deg0),
     NitroFile(TRUE, "unparsable", 0, 0, 0, "none", <<>>, Deg0),
     NitroFile(TRUE, "ok", 0, 100, 0, "none", <<>>, Deg0),
     NitroFile(TRUE, "ok", 100, 100, 0, "none", <<>>, Deg0),
     NitroFile(TRUE, "ok", 100, 100, 6, "raises", <<>>, Deg0),
     NitroFile(TRUE, "ok", 100, 100, 0, "json", <<<<R(25), R(25)>>, <<R(50), R(50)>>>>, Deg0),
     NitroFile(TRUE, "ok", 100, 100, 8, "json", <<<<R(25), R(25)>>, <<R(50), R(50)>>>>, DegAtan43),
     NitroFile(TRUE, "ok", 100, 100, 0, "json", <<<<Zero, Zero>>, <<Zero, Zero>>>>, DegAtan43),
     NitroFile(TRUE, "ok", 100, 100, 0, "json", <<<<R(25), R(25)>>>>, Deg0),
     NitroFile(TRUE, "ok", 100, 100, 0, "json", <<>>, Deg0)}

FileNames == 1..MaxFiles
AdobeText == File(<<TextLine("<rdf:Description"), AttrLine(2, "crs", "Version", OldValue, "")>>)

(* The two directories as they are when convert_directory is called.       *)
SetUpDirectories ==
    /\ pc = "idle"
    /\ nitro_dir = NoDir
    /\ \E names \in SUBSET FileNames :
          \E files \in [names -> NitroFiles] : nitro_dir' = Dir(files)
    /\ \/ adobe_dir' = NoDir
       \/ \E present \in SUBSET FileNames :
             adobe_dir' = Dir([n \in FileNames |->
                                 IF n \in present THEN AdobeText ELSE NoFile])
    /\ UNCHANGED <<pc, visited, successful, printed, orientation>>
    /\ UNCHANGED notBatch

nitro_files == sorted(DOMAIN nitro_dir.files)

(* convert_directory up to its loop.                                       *)
ConvertDirectoryBegin ==
    /\ pc = "idle"
    /\ nitro_dir # NoDir
    /\ IF ~adobe_dir.exists
       THEN /\ printed' = [line |-> "Adobe directory not found", successful |-> 0, total |-> 0]
            /\ pc' = "returned"
       ELSE IF nitro_files = <<>>
       THEN /\ printed' = [line |-> "No XMP files found", successful |-> 0, total |-> 0]
            /\ pc' = "returned"
       ELSE /\ printed' = [line |-> "Found", successful |-> 0, total |-> Len(nitro_files)]
            /\ pc' = "loop"
    /\ successful' = 0
    /\ UNCHANGED <<nitro_dir, adobe_dir, visited, orientation>>
    /\ UNCHANGED notBatch

(* One turn of the loop over nitro_files.                                  *)
ConvertDirectoryFile ==
    /\ pc = "loop"
    /\ Len(visited) < Len(nitro_files)
    /\ LET nitro_file == nitro_files[Len(visited) + 1]
           adobe_file == adobe_dir.files[nitro_file]
       IN  IF adobe_file.exists
           THEN \E c \in {convert_file(orientation, nitro_dir.files[nitro_file], adobe_file)} :
                    /\ successful' = IF c.ret = "True" THEN successful + 1 ELSE successful
                    /\ orientation' = c.orientation
                    /\ adobe_dir' = [adobe_dir EXCEPT !.files[nitro_file] = c.adobe]
                    /\ visited' = Append(visited,
                                         [name |-> nitro_file, ret |-> c.ret,
                                          message |-> c.message, before |-> adobe_file,
                                          after |-> c.adobe, crs |-> c.crs,
                                          orientation |-> c.orientation])
           ELSE /\ visited' = Append(visited,
                                     [name |-> nitro_file, ret |-> "skipped",
                                      message |-> "Adobe XMP file not found, skipping",
                                      before |-> adobe_file, after |-> adobe_file,
                                      crs |-> EmptyMap, orientation |-> orientation])
                /\ UNCHANGED <<successful, orientation, adobe_dir>>
    /\ UNCHANGED <<nitro_dir, pc, printed>>
    /\ UNCHANGED notBatch

(* The summary after the loop.                                             *)
ConvertDirectoryEnd ==
    /\ pc = "loop"
    /\ Len(visited) = Len(nitro_files)
    /\ printed' = [line |-> "Conversion complete", successful |-> successful,
                   total |-> Len(nitro_files)]
    /\ pc' = "returned"
    /\ UNCHANGED <<nitro_dir, adobe_dir, visited, successful, orientation>>
    /\ UNCHANGED notBatch

BatchNext ==
    \/ SetUpDirectories
    \/ ConvertDirectoryBegin
    \/ ConvertDirectoryFile
    \/ ConvertDirectoryEnd

BatchSpec == Init /\ [][BatchNext]_vars

(* convert_directory runs on: a step it can take is taken.                 *)
BatchFairSpec == BatchSpec /\ WF_vars(ConvertDirectoryBegin)
                     /\ WF_vars(ConvertDirectoryFile)
                     /\ WF_vars(ConvertDirectoryEnd)

----------------------------------------------------------------------------
(* convert_file: the loops over editModel['versions'] and the adjDataArr   *)
(* of each version (a version is the sequence of its adjustments; one      *)
(* without adjDataArr is the empty sequence).                              *)

Adjustment(id, cropRect, straighten) ==
    [id |-> id, cropRect |-> cropRect, straighten |-> straighten]

(* The index of the first adjustment with id 'Crop', 0 when there is none: *)
(* where the inner loop calls nitro_crop_to_crs and breaks.                *)
FirstCrop(adjDataArr) ==
    IF \E j \in DOMAIN adjDataArr : adjDataArr[j].id = "Crop"
    THEN CHOOSE j \in DOMAIN adjDataArr :
            /\ adjDataArr[j].id = "Crop"
            /\ \A k \in DOMAIN adjDataArr : adjDataArr[k].id = "Crop" => j <= k
    ELSE 0

(* The loops from version k on: crs_crop_data and the adjustments that     *)
(* were handed to nitro_crop_to_crs so far, as <<version, adjustment>>.    *)
(* The break leaves the loop over the adjustments of one version only.     *)
RECURSIVE scan_versions(_, _, _, _, _)
scan_versions(vs, width, height, k, sofar) ==
    IF k > Len(vs) THEN sofar
    ELSE LET j == FirstCrop(vs[k])
         IN  IF j = 0 THEN scan_versions(vs, width, height, k + 1, sofar)
             ELSE scan_versions(vs, width, height, k + 1,
                      [crs |-> nitro_crop_to_crs(vs[k][j], width, height),
                       calls |-> Append(sofar.calls, <<k, j>>)])

Adjustments ==
    {Adjustment("Other", <<>>, Deg0),
     Adjustment("Crop", <<<<R(25), R(25)>>, <<R(50), R(50)>>>>, Deg0),
     Adjustment("Crop", <<<<R(25), R(25)>>>>, Deg0)}

VersionVals == UNION {[1..n -> Adjustments] : n \in 0..MaxAdjustments}
VersionLists == UNION {[1..n -> VersionVals] : n \in 0..MaxVersions}

(* plist_data['editModel']['versions'] of the file being converted.        *)
ReadVersions ==
    /\ versions = NoVersions
    /\ \E vs \in VersionLists : versions' = [kind |-> "versions", list |-> vs]
    /\ UNCHANGED scan
    /\ UNCHANGED notScan

(* crs_crop_data = {} and the two loops, for a file of 100 x 100 pixels.   *)
ScanVersions ==
    /\ versions # NoVersions
    /\ scan = NoScan
    /\ \E r \in {scan_versions(versions.list, 100, 100, 1,
                                [crs |-> EmptyMap, calls |-> <<>>])} :
          scan' = [kind |-> "scanned", crs |-> r.crs, calls |-> r.calls]
    /\ UNCHANGED versions
    /\ UNCHANGED notScan

ScanNext ==
    \/ ReadVersions
    \/ ScanVersions

ScanSpec == Init /\ [][ScanNext]_vars

TypeOK ==
    /\ result.kind \in {"none", "return", "ZeroDivisionError"}
    /\ scale_factor.kind \in {"none", "return", "ZeroDivisionError"}

----------------------------------------------------------------------------
(* Vocabulary of the properties.                                           *)

constructed == rect # NoRect
called == result.kind # "none"
returned == result.kind = "return"
IsPos(a) == RLt(Zero, a)
InUnit(a) == RLe(Zero, a) /\ RLe(a, One)

(* width, height, orig_width and orig_height are all positive.             *)
PositiveDims(self) ==
    /\ IsPos(self.width) /\ IsPos(self.height)
    /\ IsPos(self.orig_width) /\ IsPos(self.orig_height)

InBounds(p, max_width, max_height) ==
    /\ RLe(Zero, p.x) /\ RLe(p.x, max_width)
    /\ RLe(Zero, p.y) /\ RLe(p.y, max_height)

----------------------------------------------------------------------------
(* C1: Range invariant.  For every CropRect with positive width, height,   *)
(* orig_width and orig_height, any origin and any rotation, the four       *)
(* fractions crop_factors returns all lie in [0,1].                        *)
C1_RangeInvariant ==
    (returned /\ PositiveDims(rect)) =>
        /\ InUnit(result.map.CropLeft) /\ InUnit(result.map.CropTop)
        /\ InUnit(result.map.CropRight) /\ InUnit(result.map.CropBottom)

(* C2: Box ordering.  For every CropRect with positive dimensions and any  *)
(* rotation, crop_factors returns CropLeft < CropRight and                 *)
(* CropTop < CropBottom.                                                   *)
C2_BoxOrdering ==
    (returned /\ PositiveDims(rect)) =>
        /\ RLt(result.map.CropLeft, result.map.CropRight)
        /\ RLt(result.map.CropTop, result.map.CropBottom)

(* C2, amended: with positive dimensions and rotation r, CropLeft <        *)
(* CropRight when width * cos r > height * sin r and CropLeft > CropRight  *)
(* when width * cos r < height * sin r; CropTop < CropBottom when          *)
(* height * cos r > - width * sin r and CropTop > CropBottom when          *)
(* height * cos r < - width * sin r.  So both orderings hold at 0; at 90   *)
(* left > right; at 180 left > right and top > bottom; at 270 top > bottom.*)
C2_BoxOrderingByAngle ==
    (returned /\ PositiveDims(rect)) =>
        LET r == rect.rotation_degrees
            m == result.map
            wcos == RMul(rect.width, r.cos)
            hsin == RMul(rect.height, r.sin)
            hcos == RMul(rect.height, r.cos)
            wsin == RMul(rect.width, r.sin)
        IN  /\ RLt(hsin, wcos) => RLt(m.CropLeft, m.CropRight)
            /\ RLt(wcos, hsin) => RLt(m.CropRight, m.CropLeft)
            /\ RLt(RNeg(wsin), hcos) => RLt(m.CropTop, m.CropBottom)
            /\ RLt(hcos, RNeg(wsin)) => RLt(m.CropBottom, m.CropTop)
            /\ r = Deg0 => RLt(m.CropLeft, m.CropRight) /\ RLt(m.CropTop, m.CropBottom)
            /\ r = Deg90 => RLt(m.CropRight, m.CropLeft) /\ RLt(m.CropTop, m.CropBottom)
            /\ r = Deg180 => RLt(m.CropRight, m.CropLeft) /\ RLt(m.CropBottom, m.CropTop)
            /\ r = Deg270 => RLt(m.CropLeft, m.CropRight) /\ RLt(m.CropBottom, m.CropTop)

C2_Witness ==
    /\ returned /\ PositiveDims(rect) /\ rect.rotation_degrees = Deg180
    /\ RLt(result.map.CropRight, result.map.CropLeft)

(* C3: Zero-rotation round trip.  At rotation 0, for a rectangle lying     *)
(* inside [0,orig_width] x [0,orig_height], crop_factors applies no        *)
(* scaling and returns left = origin.x/orig_width, right =                 *)
(* (origin.x+width)/orig_width, top = 1 - (origin.y+height)/orig_height,   *)
(* bottom = 1 - origin.y/orig_height; origin (25,25), size (50,50), image  *)
(* 100x100 gives 1/4, 1/4, 3/4, 3/4.                                       *)
C3_Example ==
    LET out == crop_factors(CropRect(<<<<R(25), R(25)>>, <<R(50), R(50)>>>>,
                                     Deg0, R(100), R(100)))
    IN  /\ out.kind = "return"
        /\ out.map.CropLeft = <<1, 4>> /\ out.map.CropTop = <<1, 4>>
        /\ out.map.CropRight = <<3, 4>> /\ out.map.CropBottom = <<3, 4>>

UnrotatedInside(self) ==
    /\ self.rotation_degrees = Deg0
    /\ IsPos(self.orig_width) /\ IsPos(self.orig_height)
    /\ \A i \in 1..4 : InBounds(corners(self)[i], self.orig_width, self.orig_height)

C3_ZeroRotationRoundTrip ==
    /\ C3_Example
    /\ (called /\ UnrotatedInside(rect)) =>
          /\ scale_factor = [kind |-> "return", val |-> One]
          /\ returned
          /\ result.map.CropLeft = RDiv(rect.origin.x, rect.orig_width)
          /\ result.map.CropRight =
                RDiv(RAdd(rect.origin.x, rect.width), rect.orig_width)
          /\ result.map.CropTop =
                RSub(One, RDiv(RAdd(rect.origin.y, rect.height), rect.orig_height))
          /\ result.map.CropBottom =
                RSub(One, RDiv(rect.origin.y, rect.orig_height))

C3_Witness ==
    /\ returned /\ UnrotatedInside(rect) /\ PositiveDims(rect)
    /\ IsPos(rect.origin.x) /\ IsPos(rect.origin.y)
    /\ result.map.CropTop # result.map.CropBottom

(* C4: Sentinel substitution.  A CropRect built from origin (0,0) and size *)
(* (0,0) with original size W x H has, for every rotation, the same fields *)
(* and the same crop_factors result as one built from origin (0,0) and     *)
(* explicit size (W,H); the substitution happens at construction.          *)
ZeroRect == <<<<Zero, Zero>>, <<Zero, Zero>>>>

C4_SentinelSubstitution ==
    (constructed /\ args.json_array = ZeroRect) =>
        LET explicit == CropRect(<<<<Zero, Zero>>, <<args.orig_width, args.orig_height>>>>,
                                 args.rotation_degrees, args.orig_width, args.orig_height)
        IN  /\ rect.origin = Point(Zero, Zero)
            /\ rect.width = args.orig_width
            /\ rect.height = args.orig_height
            /\ rect = explicit
            /\ called => /\ result = crop_factors(explicit)
                          /\ scale_factor = ScaleCall(explicit)

C4_Witness ==
    /\ returned /\ args.json_array = ZeroRect /\ PositiveDims(rect)
    /\ rect.rotation_degrees \notin QuarterTurns

(* C5: The sentinel is the pair exactly (0,0).  Construction replaces      *)
(* width and height by the original dimensions if and only if both given   *)
(* values are 0; when exactly one is 0 that axis is not replaced, and when  *)
(* both are non-zero the stored width, height and origin are the given     *)
(* values.                                                                 *)
C5_SentinelIsExactPair ==
    constructed =>
        LET w == args.json_array[2][1]
            h == args.json_array[2][2]
        IN  /\ rect.origin = Point(args.json_array[1][1], args.json_array[1][2])
            /\ (w = Zero /\ h = Zero) =>
                  rect.width = args.orig_width /\ rect.height = args.orig_height
            /\ ~(w = Zero /\ h = Zero) => rect.width = w /\ rect.height = h

(* C6: Malformed input is rejected.  A rectangle whose width or height is  *)
(* <= 0 after sentinel resolution, or whose orig_width or orig_height is   *)
(* <= 0, ends in an error before any rotation, scaling or normalization    *)
(* runs, and no field map is returned.                                     *)
C6_MalformedRejected ==
    (called /\ ~PositiveDims(rect)) =>
        /\ ~returned
        /\ scale_factor.kind = "none"

(* C7: The scale solver never performs an unguarded division by zero:      *)
(* _scale_factor, and hence crop_factors, returns a value or reports a     *)
(* validation error, never a raw ZeroDivisionError.  Stated for the        *)
(* rectangles with positive dimensions, which no validation would reject.  *)
C7_NoRawDivisionByZero ==
    (called /\ PositiveDims(rect)) =>
        /\ scale_factor.kind # "ZeroDivisionError"
        /\ result.kind # "ZeroDivisionError"

(* C8: The scale factor is never below 1.  For every rectangle, angle and  *)
(* bounds, also when the centre lies outside the image and a per-corner    *)
(* ratio is negative, _scale_factor returns a value >= 1.                  *)
C8_ScaleAtLeastOne ==
    scale_factor.kind = "return" => RLe(One, scale_factor.val)

(* A negative ratio was computed: a corner beyond a bound the centre is    *)
(* beyond too.                                                             *)
C8_Witness ==
    /\ scale_factor.kind = "return" /\ constructed
    /\ LET rs == ratios(rect, NegRadians(rect.rotation_degrees),
                        rect.orig_width, rect.orig_height)
       IN  \E k \in DOMAIN rs : rs[k].kind = "ratio" /\ RLt(rs[k].val, Zero)

(* The four corners after rotation by minus the rotation, and after the    *)
(* division of their offsets from the centre by the factor f.              *)
RotatedCorner(self, i) ==
    rotate(corners(self)[i], center(self), NegRadians(self.rotation_degrees))
ScaledCorner(self, i, f) == _scale_point(self, RotatedCorner(self, i), f)

(* C9: Scale-to-fit.  For every valid rectangle and angle, after dividing  *)
(* the offsets of the four rotated corners from the centre by the factor   *)
(* of _scale_factor, all four corners lie inside [0,orig_width] x          *)
(* [0,orig_height]; a corner that exceeded a bound and determined the      *)
(* factor lies exactly on that bound afterwards.                           *)
C9_ScaleToFit ==
    (scale_factor.kind = "return" /\ PositiveDims(rect)) =>
        LET f == scale_factor.val
            rs == ratios(rect, NegRadians(rect.rotation_degrees),
                         rect.orig_width, rect.orig_height)
        IN  \A i \in 1..4 :
              LET before == RotatedCorner(rect, i)
                  after == ScaledCorner(rect, i, f)
              IN  /\ InBounds(after, rect.orig_width, rect.orig_height)
                  /\ (rs[2 * i - 1].kind = "ratio" /\ rs[2 * i - 1].val = f) =>
                        after.x = (IF RLt(before.x, Zero) THEN Zero ELSE rect.orig_width)
                  /\ (rs[2 * i].kind = "ratio" /\ rs[2 * i].val = f) =>
                        after.y = (IF RLt(before.y, Zero) THEN Zero ELSE rect.orig_height)

(* C10: Boundary scale.  When every rotated corner lies inside or exactly  *)
(* on the edges of [0,max_width] x [0,max_height], _scale_factor returns   *)
(* exactly 1; in particular an unrotated rectangle that fits returns 1.    *)
AllCornersWithin(self) ==
    \A i \in 1..4 : InBounds(RotatedCorner(self, i), self.orig_width, self.orig_height)

C10_BoundaryScale ==
    (called /\ AllCornersWithin(rect)) =>
        scale_factor = [kind |-> "return", val |-> One]

(* A turned rectangle with a corner exactly on an edge of the image.       *)
C10_Witness ==
    /\ called /\ AllCornersWithin(rect) /\ PositiveDims(rect)
    /\ rect.rotation_degrees # Deg0
    /\ \E i \in 1..4 : RotatedCorner(rect, i).x = rect.orig_width
    /\ \E i \in 1..4 : RotatedCorner(rect, i).y = Zero

(* C11: For every input on which crop_factors returns, the map has        *)
(* exactly the eight keys CropLeft, CropTop, CropRight, CropBottom,        *)
(* CropAngle, CropConstrainToWarp, CropConstrainToUnitSquare and HasCrop   *)
(* (each under the prefix crs:), with CropAngle the rotation_degrees of    *)
(* the rectangle unchanged, not negated, HasCrop true,                     *)
(* CropConstrainToWarp 0 and CropConstrainToUnitSquare 1.                  *)
C11_FieldMapShape ==
    returned =>
        /\ DOMAIN result.map =
              {"CropLeft", "CropTop", "CropRight", "CropBottom", "CropAngle",
               "CropConstrainToWarp", "CropConstrainToUnitSquare", "HasCrop"}
        /\ result.map.CropAngle = args.rotation_degrees
        /\ result.map.HasCrop = TRUE
        /\ result.map.CropConstrainToWarp = 0
        /\ result.map.CropConstrainToUnitSquare = 1

(* A map returned for an angle that differs from its opposite.             *)
C11_Witness ==
    /\ returned
    /\ args.rotation_degrees.sin # Zero
    /\ result.map.CropAngle # NegRadians(args.rotation_degrees)

C18_Turned(self) ==
    LET x == self.origin.x
        y == self.origin.y
        w == self.width
        h == self.height
        cx == RAdd(x, RDiv(w, R(2)))
        cy == RAdd(y, RDiv(h, R(2)))
        ct == self.rotation_degrees.cos
        st == RNeg(self.rotation_degrees.sin)
    IN  {<<RAdd(cx, RSub(RMul(RSub(p[1], cx), ct), RMul(RSub(p[2], cy), st))),
           RAdd(cy, RAdd(RMul(RSub(p[1], cx), st), RMul(RSub(p[2], cy), ct))),
           cx, cy>> :
            p \in {<<x, y>>, <<x, RAdd(y, h)>>, <<RAdd(x, w), y>>,
                   <<RAdd(x, w), RAdd(y, h)>>}}

C18_Ratios(self) ==
    LET T == C18_Turned(self)
        mw == self.orig_width
        mh == self.orig_height
    IN  {RDiv(RAbs(RSub(t[1], t[3])), t[3]) : t \in {u \in T : RLt(u[1], Zero)}}
        \cup {RDiv(RAbs(RSub(t[1], t[3])), RSub(mw, t[3])) : t \in {u \in T : ~RLt(u[1], Zero) /\ RLt(mw, u[1])}}
        \cup {RDiv(RAbs(RSub(t[2], t[4])), t[4]) : t \in {u \in T : RLt(u[2], Zero)}}
        \cup {RDiv(RAbs(RSub(t[2], t[4])), RSub(mh, t[4])) : t \in {u \in T : ~RLt(u[2], Zero) /\ RLt(mh, u[2])}}

C18_ScaleFormula ==
    scale_factor.kind = "return" =>
        LET S == {One} \cup C18_Ratios(rect)
        IN  /\ scale_factor.val \in S
            /\ \A r \in S : RLe(r, scale_factor.val)

(* A factor above 1 that a corner beyond max_width or max_height gave.     *)
C18_Witness ==
    /\ scale_factor.kind = "return" /\ PositiveDims(rect)
    /\ RLt(One, scale_factor.val)
    /\ \E t \in C18_Turned(rect) :
          \/ /\ RLt(rect.orig_width, t[1])
             /\ RDiv(RAbs(RSub(t[1], t[3])), RSub(rect.orig_width, t[3])) = scale_factor.val
          \/ /\ RLt(rect.orig_height, t[2])
             /\ RDiv(RAbs(RSub(t[2], t[4])), RSub(rect.orig_height, t[4])) = scale_factor.val

(* C20: Corner transform.  _rotate_corners(theta) returns the points       *)
(* (origin.x, origin.y+height) and (origin.x+width, origin.y) rotated      *)
(* about the centre of the rectangle (origin.x+width/2,                    *)
(* origin.y+height/2), so theta = 0 returns the two corners unchanged;     *)
(* crop_factors calls it with minus the rotation, so +90 degrees turns the *)
(* corners by -90 degrees.                                                 *)
C20_About(self, dx, dy) ==
    LET r == self.rotation_degrees
        cx == RAdd(self.origin.x, RDiv(self.width, R(2)))
        cy == RAdd(self.origin.y, RDiv(self.height, R(2)))
    IN  Point(RAdd(cx, RAdd(RMul(dx, r.cos), RMul(dy, r.sin))),
              RAdd(cy, RSub(RMul(dy, r.cos), RMul(dx, r.sin))))

C20_CornerTransform ==
    /\ constructed =>
          _rotate_corners(rect, Deg0) =
              <<Point(rect.origin.x, RAdd(rect.origin.y, rect.height)),
                Point(RAdd(rect.origin.x, rect.width), rect.origin.y)>>
    /\ called =>
          LET hw == RDiv(rect.width, R(2))
              hh == RDiv(rect.height, R(2))
          IN  /\ rotated[1] = C20_About(rect, RNeg(hw), hh)
              /\ rotated[2] = C20_About(rect, hw, RNeg(hh))
              /\ rect.rotation_degrees = Deg90 =>
                    /\ rotated[1] = Point(RAdd(center(rect).x, hh), RAdd(center(rect).y, hw))
                    /\ rotated[2] = Point(RSub(center(rect).x, hh), RSub(center(rect).y, hw))

(* A quarter turn of a rectangle that is not centred in the image.         *)
C20_Witness ==
    /\ called /\ PositiveDims(rect) /\ rect.rotation_degrees = Deg90
    /\ rect.width # rect.height
    /\ center(rect) # Point(RMul(Half, rect.orig_width), RMul(Half, rect.orig_height))

(* C19: Point rotation.  rotate(center, theta) returns                     *)
(* center + R(theta) * (point - center), R = [[cos, -sin], [sin, cos]]:    *)
(* theta = 0 returns the point itself, a quarter turn maps (1,0) about     *)
(* (0,0) to (0,1), the pivot is a fixed point for every theta, four        *)
(* successive quarter turns about one pivot return the original point, and *)
(* the receiver and the pivot are not modified.                            *)
C19_Matrix(p, c, theta) ==
    Point(RAdd(c.x, RSub(RMul(theta.cos, RSub(p.x, c.x)),
                          RMul(theta.sin, RSub(p.y, c.y)))),
          RAdd(c.y, RAdd(RMul(theta.sin, RSub(p.x, c.x)),
                          RMul(theta.cos, RSub(p.y, c.y)))))

RECURSIVE C19_After(_)
C19_After(n) ==
    IF n = 0 THEN point ELSE C19_Matrix(C19_After(n - 1), pivot, thetas[n])

C19_Returned ==
    image # NoPoint =>
        /\ image = C19_After(Len(thetas))
        /\ (\A i \in 1..Len(thetas) : thetas[i] = Deg0) => image = point
        /\ (thetas = <<Deg90>> /\ point = Point(R(1), R(0)) /\ pivot = Point(R(0), R(0)))
              => image = Point(R(0), R(1))
        /\ point = pivot => image = pivot
        /\ thetas = <<Deg90, Deg90, Deg90, Deg90>> => image = point

C19_PointRotation ==
    /\ []C19_Returned
    /\ [][point # NoPoint => (point' = point /\ pivot' = pivot)]_vars

(* Four quarter turns of a point that is not the pivot have been made.     *)
C19_Witness ==
    /\ thetas = <<Deg90, Deg90, Deg90, Deg90>>
    /\ point = Point(R(1), R(0)) /\ pivot = Point(R(0), R(0))
    /\ image = point

(* C12: Orientation remap.  maybe_rotate_crop replaces (left, top, right,  *)
(* bottom) by (1 - bottom, left, 1 - top, right) when the orientation of   *)
(* the converter is 8 and leaves the four fractions unchanged for every    *)
(* other orientation; CropAngle, HasCrop and the two constraint flags are  *)
(* unchanged in both cases.                                                *)
C12_OrientationRemap ==
    crs_crop_data # NoMap =>
        LET old == crs_given
            new == crs_crop_data
        IN  /\ orientation = 8 =>
                  /\ new.CropLeft = RSub(One, old.CropBottom)
                  /\ new.CropTop = old.CropLeft
                  /\ new.CropRight = RSub(One, old.CropTop)
                  /\ new.CropBottom = old.CropRight
            /\ orientation # 8 =>
                  /\ new.CropLeft = old.CropLeft
                  /\ new.CropTop = old.CropTop
                  /\ new.CropRight = old.CropRight
                  /\ new.CropBottom = old.CropBottom
            /\ DOMAIN new = DOMAIN old
            /\ new.CropAngle = old.CropAngle
            /\ new.HasCrop = old.HasCrop
            /\ new.CropConstrainToWarp = old.CropConstrainToWarp
            /\ new.CropConstrainToUnitSquare = old.CropConstrainToUnitSquare

(* A remap at orientation 8 that moved every fraction.                     *)
C12_Witness ==
    /\ crs_crop_data # NoMap
    /\ orientation = 8
    /\ crs_crop_data.CropLeft # crs_given.CropLeft
    /\ crs_crop_data.CropTop # crs_given.CropTop
    /\ crs_crop_data.CropRight # crs_given.CropRight
    /\ crs_crop_data.CropBottom # crs_given.CropBottom
    /\ crs_given.CropAngle = DegAtan43

(* C16: Locate-or-insert.  After update_adobe_xmp returns True, for every  *)
(* field name of the given dictionary the destination text contains that   *)
(* attribute set to the serialized value, whether the attribute was there  *)
(* before (replaced) or not (inserted), also when the destination held no  *)
(* crs: attribute line at all.                                             *)
C16_LocateOrInsert ==
    patch_ret = "True" =>
        \A k \in DOMAIN patch_data :
            \E i \in DOMAIN adobe_xmp.lines :
                /\ adobe_xmp.lines[i].kind = "attr"
                /\ adobe_xmp.lines[i].ns = "crs"
                /\ adobe_xmp.lines[i].local = k
                /\ adobe_xmp.lines[i].value = value_str(k, patch_data[k])

(* C14: Batch isolation.  In convert_directory, when the Adobe directory   *)
(* exists, every *.xmp file of the Nitro directory is visited exactly once *)
(* in sorted order whatever the outcome of earlier files, the run always   *)
(* reaches the final summary, and the success count reported equals the    *)
(* number of files for which convert_file returned True, out of the total  *)
(* number of Nitro files.                                                  *)
C14_InOrder ==
    \A i \in DOMAIN visited :
        /\ visited[i].name \in DOMAIN nitro_dir.files
        /\ \A j \in DOMAIN visited : j < i => visited[j].name < visited[i].name
        /\ \A n \in DOMAIN nitro_dir.files :
              n < visited[i].name => \E j \in DOMAIN visited : j < i /\ visited[j].name = n

C14_Summary ==
    printed.line = "Conversion complete" =>
        /\ {visited[i].name : i \in DOMAIN visited} = DOMAIN nitro_dir.files
        /\ printed.successful =
              Cardinality({i \in DOMAIN visited : visited[i].ret = "True"})
        /\ printed.total = Cardinality(DOMAIN nitro_dir.files)

C14_BatchIsolation ==
    /\ [](C14_InOrder /\ C14_Summary)
    /\ (pc # "idle" /\ adobe_dir.exists) ~> (printed.line = "Conversion complete")

(* C14, amended: the same when the Adobe directory exists and the Nitro    *)
(* directory holds at least one *.xmp file; with no *.xmp file the run     *)
(* returns after "No XMP files found" and prints no summary.               *)
C14_BatchIsolationOfFiles ==
    /\ [](C14_InOrder /\ C14_Summary)
    /\ (pc # "idle" /\ adobe_dir.exists /\ DOMAIN nitro_dir.files # {})
          ~> (printed.line = "Conversion complete")
    /\ [](pc # "idle" /\ adobe_dir.exists /\ DOMAIN nitro_dir.files = {}
            => printed.line = "No XMP files found")

(* A run that went on to its summary after a file that raised and a file   *)
(* with no Adobe counterpart.                                              *)
C14_Witness ==
    /\ printed.line = "Conversion complete"
    /\ Len(visited) = 2
    /\ visited[1].message = "Error converting"
    /\ visited[2].ret = "skipped"

(* C15: No partial output.  Whenever convert_file returns False, the       *)
(* content of the destination Adobe file is the same as before the call;   *)
(* the destination is rewritten only on the path that returns True.        *)
C15_NoPartialOutput ==
    \A i \in DOMAIN visited :
        /\ visited[i].ret = "False" => visited[i].after = visited[i].before
        /\ visited[i].after # visited[i].before => visited[i].ret = "True"
        /\ visited[i].ret = "False" =>
              adobe_dir.files[visited[i].name] = visited[i].before

(* convert_file returned False for a file with a Crop adjustment whose     *)
(* Adobe file is there.                                                    *)
C15_Witness ==
    \E i \in DOMAIN visited :
        /\ visited[i].ret = "False"
        /\ nitro_dir.files[visited[i].name].crop = "json"
        /\ Len(nitro_dir.files[visited[i].name].cropRect) = 2
        /\ visited[i].before = AdobeText
        /\ adobe_dir.files[visited[i].name] = AdobeText

(* C17: For crop data whose cropRect has two elements and for positive     *)
(* original dimensions, nitro_crop_to_crs returns a non-empty map          *)
(* (CropLeft, CropTop, CropRight, CropBottom, CropAngle, HasCrop) computed *)
(* from the cropRect, the straighten angle and the original width and      *)
(* height passed in; for an all-zero cropRect the rectangle used is the    *)
(* full frame (0,0)/(original_width, original_height) with that original   *)
(* size as bounds.                                                         *)
C17_Expected(nf) ==
    LET used == IF nf.cropRect = <<<<Zero, Zero>>, <<Zero, Zero>>>>
                THEN <<<<Zero, Zero>>, <<R(nf.width), R(nf.height)>>>>
                ELSE nf.cropRect
    IN  crop_factors(CropRect(used, nf.straighten, R(nf.width), R(nf.height)))

C17_NonEmptyMap ==
    \A i \in DOMAIN visited :
        LET nf == nitro_dir.files[visited[i].name]
        IN  (/\ visited[i].ret # "skipped"
             /\ nf.plist /\ nf.size = "ok" /\ nf.width > 0 /\ nf.height > 0
             /\ nf.crop = "json" /\ Len(nf.cropRect) = 2) =>
                /\ DOMAIN visited[i].crs # {}
                /\ {"CropLeft", "CropTop", "CropRight", "CropBottom", "CropAngle",
                    "HasCrop"} \subseteq DOMAIN visited[i].crs
                /\ C17_Expected(nf).kind = "return"
                /\ visited[i].crs = C17_Expected(nf).map


(* C21: Point scaling.  _scale_point(p, f) returns centre + (p - centre)/f  *)
(* where centre is the centre of the rectangle; f = 1.0 returns p          *)
(* unchanged; and crop_factors applies one and the same factor, the one    *)
(* _scale_factor gave it, to both representative corners.                  *)
C21_Centre(self) ==
    Point(RAdd(self.origin.x, RDiv(self.width, R(2))),
          RAdd(self.origin.y, RDiv(self.height, R(2))))

C21_Scaled(self, p, f) ==
    LET c == C21_Centre(self)
    IN  Point(RAdd(c.x, RDiv(RSub(p.x, c.x), f)), RAdd(c.y, RDiv(RSub(p.y, c.y), f)))

C22_NonDegenerate ==
    (returned /\ PositiveDims(rect)) =>
        /\ result.map.CropRight # result.map.CropLeft
        /\ result.map.CropBottom # result.map.CropTop


(* C23: CropData validation.  Constructing a CropData succeeds exactly     *)
(* when left, top, right and bottom all lie in [0,1] and left < right and  *)
(* top < bottom; otherwise construction fails with a ValueError and no     *)
(* CropData value exists.                                                  *)
C23_Valid(a) ==
    /\ InUnit(a.left) /\ InUnit(a.top) /\ InUnit(a.right) /\ InUnit(a.bottom)
    /\ RLt(a.left, a.right)
    /\ RLt(a.top, a.bottom)

C23_CropDataValidation ==
    crop_data # NoCropData =>
        /\ crop_data.kind \in {"CropData", "ValueError"}
        /\ crop_data.kind = "CropData" <=> C23_Valid(crop_data_args)
        /\ crop_data.kind = "CropData" =>
              /\ crop_data.left = crop_data_args.left
              /\ crop_data.top = crop_data_args.top
              /\ crop_data.right = crop_data_args.right
              /\ crop_data.bottom = crop_data_args.bottom
              /\ crop_data.has_crop = crop_data_args.has_crop
        /\ crop_data.kind = "ValueError" => DOMAIN crop_data = {"kind", "message"}

(* A construction that failed only because the box is empty on one axis.   *)
C23_Witness ==
    /\ crop_data # NoCropData
    /\ crop_data.kind = "ValueError"
    /\ InUnit(crop_data_args.left) /\ InUnit(crop_data_args.top)
    /\ InUnit(crop_data_args.right) /\ InUnit(crop_data_args.bottom)
    /\ crop_data_args.left = crop_data_args.right
    /\ RLt(crop_data_args.top, crop_data_args.bottom)


(* C24: Orientation does not leak between files.  For every sequence of    *)
(* convert_file calls on one converter, as convert_directory makes, the    *)
(* orientation that decides the remap for a file is the file's own         *)
(* defaultOrientation, or the default 1 when the file has none; it is      *)
(* never the value a file converted before left behind.                    *)
C24_OwnOrientation ==
    \A i \in DOMAIN visited :
        LET nf == nitro_dir.files[visited[i].name]
        IN  (/\ visited[i].ret # "skipped"
             /\ nf.plist /\ nf.size = "ok" /\ nf.width > 0 /\ nf.height > 0) =>
                visited[i].orientation =
                    IF nf.defaultOrientation # 0 THEN nf.defaultOrientation
                    ELSE DefaultOrientation


(* C25: Crop selection.  When the edit model holds several versions or     *)
(* several Crop adjustments, convert_file uses the first Crop adjustment   *)
(* met when scanning the versions and their adjustments in order, and      *)
(* stops scanning once it is found; the Crop adjustment of a later version *)
(* (or its failed conversion) never replaces the result of an earlier one. *)
C25_Crops(vs) ==
    {p \in {<<k, j>> : k \in 1..MaxVersions + 1, j \in 1..MaxAdjustments + 1} :
        /\ p[1] \in DOMAIN vs
        /\ p[2] \in DOMAIN vs[p[1]]
        /\ vs[p[1]][p[2]].id = "Crop"}

C25_Before(p, q) == p[1] < q[1] \/ (p[1] = q[1] /\ p[2] <= q[2])

C25_FirstCropOnly ==
    scan # NoScan =>
        LET crops == C25_Crops(versions.list)
        IN  IF crops = {} THEN scan.calls = <<>> /\ DOMAIN scan.crs = {}
            ELSE LET first == CHOOSE p \in crops : \A q \in crops : C25_Before(p, q)
                 IN  /\ scan.calls = <<first>>
                     /\ scan.crs = nitro_crop_to_crs(versions.list[first[1]][first[2]],
                                                     100, 100)


(* C26: The orientation-8 remap is a quarter-turn relabelling.  Applying   *)
(* (l, t, r, b) -> (1 - b, l, 1 - t, r) four times returns the original    *)
(* box, and one application maps every box with all fractions in [0,1],    *)
(* l < r and t < b to a box with all fractions in [0,1], left < right and  *)
(* top < bottom.                                                           *)
C26_Box(d) ==
    /\ InUnit(d.CropLeft) /\ InUnit(d.CropTop)
    /\ InUnit(d.CropRight) /\ InUnit(d.CropBottom)
    /\ RLt(d.CropLeft, d.CropRight)
    /\ RLt(d.CropTop, d.CropBottom)

C26_QuarterTurn ==
    (crs_crop_data # NoMap /\ orientation = 8) =>
        LET twice == maybe_rotate_crop(orientation, crs_crop_data)
            thrice == maybe_rotate_crop(orientation, twice)
            fourth == maybe_rotate_crop(orientation, thrice)
        IN  /\ fourth = crs_given
            /\ twice.CropLeft = RSub(One, crs_given.CropRight)
            /\ twice.CropBottom = RSub(One, crs_given.CropTop)
            /\ C26_Box(crs_given) => C26_Box(crs_crop_data)

(* A box of positive extent that one application moved, with edges that    *)
(* tell the four applications apart.                                       *)
C26_Witness ==
    /\ crs_crop_data # NoMap /\ orientation = 8
    /\ C26_Box(crs_given) /\ C26_Box(crs_crop_data)
    /\ crs_crop_data # crs_given
    /\ maybe_rotate_crop(orientation, crs_crop_data) # crs_given
    /\ crs_given.CropLeft # crs_given.CropTop


(* C27: Patching is idempotent.  For every destination text and field map, *)
(* applying update_adobe_xmp twice with the same map leaves the same text  *)
(* as applying it once: no attribute is inserted a second time and no      *)
(* value changes.                                                          *)
C27_Idempotent ==
    patch_calls = 2 =>
        /\ adobe_xmp = adobe_once
        /\ Len(adobe_xmp.lines) = Len(adobe_once.lines)
        /\ \A i \in DOMAIN adobe_once.lines :
              adobe_xmp.lines[i].value = adobe_once.lines[i].value

(* Two calls, the first of which inserted a line and replaced a value.     *)
C27_Witness ==
    /\ patch_calls = 2
    /\ Len(adobe_once.lines) > Len(adobe_before.lines)
    /\ \E i \in DOMAIN adobe_before.lines :
          /\ adobe_before.lines[i].value = OldValue
          /\ adobe_once.lines[i].value # OldValue


(* C28: Patching frame.  update_adobe_xmp changes only the values of       *)
(* attributes named in the map and adds lines only for map fields that     *)
(* were absent; every other attribute and line of the destination text     *)
(* keeps its value and relative order, and an inserted attribute is placed *)
(* directly after the last existing crs: attribute line.                   *)
C28_IsCrs(line) == line.kind = "attr" /\ line.ns = "crs"

(* A line of the text before, as it may be afterwards.                     *)
C28_Kept(line, d) ==
    IF C28_IsCrs(line) /\ line.local \in DOMAIN d
    THEN [line EXCEPT !.value = value_str(line.local, d[line.local])]
    ELSE line

C28_Absent(before, d) ==
    {k \in DOMAIN d : ~\E i \in DOMAIN before : C28_IsCrs(before[i]) /\ before[i].local = k}

(* after is before with n lines added in one block behind line p.          *)
C28_Framed(before, after, d, anchors) ==
    LET n == Len(after) - Len(before)
        absent == C28_Absent(before, d)
    IN  /\ n >= 0
        /\ n = 0 => \A i \in DOMAIN before : after[i] = C28_Kept(before[i], d)
        /\ n > 0 =>
              /\ anchors # {}
              /\ LET p == CHOOSE i \in anchors : \A j \in anchors : j <= i
                 IN  /\ \A i \in 1..p : after[i] = C28_Kept(before[i], d)
                     /\ \A i \in (p + 1)..Len(before) :
                           after[i + n] = C28_Kept(before[i], d)
                     /\ \A i \in (p + 1)..(p + n) :
                           /\ C28_IsCrs(after[i])
                           /\ after[i].local \in absent
                           /\ after[i].value = value_str(after[i].local, d[after[i].local])
                           /\ \A j \in (p + 1)..(p + n) :
                                 after[j].local = after[i].local => j = i

C29_CentrePreserved ==
    returned =>
        LET m == result.map
        IN  /\ RMul(RDiv(RAdd(m.CropLeft, m.CropRight), R(2)), rect.orig_width) =
                  RAdd(rect.origin.x, RDiv(rect.width, R(2)))
            /\ RMul(RSub(One, RDiv(RAdd(m.CropTop, m.CropBottom), R(2))), rect.orig_height) =
                  RAdd(rect.origin.y, RDiv(rect.height, R(2)))

(* A turned and scaled rectangle that is not centred in the image.         *)
C29_Witness ==
    /\ returned /\ PositiveDims(rect)
    /\ rect.rotation_degrees = DegMinusAtan34
    /\ RLt(One, scale_factor.val)
    /\ RAdd(rect.origin.x, RDiv(rect.width, R(2))) # RDiv(rect.orig_width, R(2))
    /\ RAdd(rect.origin.y, RDiv(rect.height, R(2))) # RDiv(rect.orig_height, R(2))


(* C30: nitro_crop_to_crs never propagates a failure.  For every input it  *)
(* returns a map, which is empty when cropRect is missing or does not have *)
(* exactly two elements and whenever any step of the conversion raises;    *)
(* convert_file then reports "No crop data found" and returns False.       *)
C30_Raises(nf) ==
    crop_factors_call(CropRect(nf.cropRect, Deg0, R(DefaultOrigWidth), R(DefaultOrigHeight)),
                      <<nf.straighten, nf.width, nf.height>>).kind # "return"

C30_NoFailurePropagated ==
    \A i \in DOMAIN visited :
        LET nf == nitro_dir.files[visited[i].name]
        IN  (/\ visited[i].ret # "skipped"
             /\ nf.plist /\ nf.size = "ok" /\ nf.width > 0 /\ nf.height > 0
             /\ nf.crop = "json") =>
                /\ DOMAIN visited[i].crs \subseteq {KeyOrder[k] : k \in DOMAIN KeyOrder}
                /\ Len(nf.cropRect) # 2 => DOMAIN visited[i].crs = {}
                /\ (Len(nf.cropRect) = 2 /\ C30_Raises(nf)) => DOMAIN visited[i].crs = {}
                /\ DOMAIN visited[i].crs = {} =>
                      /\ visited[i].ret = "False"
                      /\ visited[i].message = "No crop data found"

(* A run over a file whose conversion raised and a file without cropRect.  *)
C30_Witness ==
    /\ Len(visited) = 2
    /\ LET nf1 == nitro_dir.files[visited[1].name]
           nf2 == nitro_dir.files[visited[2].name]
       IN  /\ nf1.crop = "json" /\ Len(nf1.cropRect) = 2 /\ C30_Raises(nf1)
           /\ nf2.crop = "json" /\ Len(nf2.cropRect) = 0
    /\ visited[1].message = "No crop data found"
    /\ visited[2].message = "No crop data found"
    /\ adobe_dir.files[visited[1].name].exists

=============================================================================
